---- MODULE Spec2Model ----
(***************************************************************************)
(* S3File: a file-like proxy over an object of a remote store.  A stream   *)
(* owns a local temporary file (the buffer); the constructor may download  *)
(* the object into it, the stream operations act on it, and close()        *)
(* uploads it when the mode is writable.                                   *)
(*                                                                         *)
(* Content is a sequence of units: 0 is the NUL unit the temporary file    *)
(* fills holes with, NL is the line terminator, the other units of Data    *)
(* are ordinary characters.  A mode token is the sequence of its           *)
(* characters, e.g. <<"r", "+", "b">>.                                     *)
(***************************************************************************)
EXTENDS Integers, Sequences, FiniteSets, TLC

\* ---------------------------------------------------------------- bounds
MaxLen == 3        \* longest buffer, and furthest cursor position

NL == 1            \* the line terminator
CH == 2            \* an ordinary character
Data == {NL, CH}
Streams == {1, 2}

Min(a, b) == IF a < b THEN a ELSE b
Max(a, b) == IF a < b THEN b ELSE a

\* ---------------------------------------------------------------- inputs
RemoteContents == {<<>>, <<CH>>, <<NL, CH>>}
WriteData == {<<NL>>, <<CH>>, <<CH, NL>>}
LineLists == {<<>>, <<<<CH>>>>, <<<<CH>>, <<NL>>>>}
ReadSizes == {-1, 1}
IntoSizes == 1..2
TruncSizes == 0..MaxLen
NoSize == -1       \* the size=None default of truncate

SEEK_SET == 0
SEEK_CUR == 1
SEEK_END == 2
\* seek(offset, whence) arguments: every absolute offset, short relative ones
SeekArgs ==
  {<<off, SEEK_SET>> : off \in (-1)..MaxLen}
  \cup {<<off, SEEK_CUR>> : off \in (-1)..1}
  \cup {<<off, SEEK_END>> : off \in (-1)..0}

\* ------------------------------------------------------------ mode tokens
Modes ==
  { <<"r">>, <<"r", "b">>, <<"r", "+">>,
    <<"w">>, <<"w", "b">>, <<"w", "+">>,
    <<"a">>, <<"a", "+">>,
    <<"x">>, <<"x", "b">> }

In(c, m) == \E i \in 1..Len(m) : m[i] = c

\* length of the [rwa]+ group when the token matches ^([rwa]+)(b?)$, else 0
ReGroup(m) ==
  LET ks == { k \in 1..Len(m) :
                /\ \A i \in 1..k : m[i] \in {"r", "w", "a"}
                /\ \/ k = Len(m)
                   \/ k + 1 = Len(m) /\ m[Len(m)] = "b" }
  IN IF ks = {} THEN 0 ELSE CHOOSE k \in ks : TRUE

\* re.sub(r'^([rwa]+)(b?)$', r'\1+\2', mode)
updatable_mode(m) ==
  LET k == ReGroup(m)
  IN IF k = 0 THEN m
     ELSE SubSeq(m, 1, k) \o <<"+">> \o SubSeq(m, k + 1, Len(m))

\* capabilities of TemporaryFile(updatable_mode)
tfReadable(m) == In("r", updatable_mode(m)) \/ In("+", updatable_mode(m))
tfWritable(m) ==
  \/ In("w", updatable_mode(m)) \/ In("a", updatable_mode(m))
  \/ In("x", updatable_mode(m)) \/ In("+", updatable_mode(m))
tfBinary(m) == In("b", updatable_mode(m))

\* readable() forgetting the '+' of an update mode
readable_noplus(m) == In("r", m)
readable(m) == In("r", m) \/ In("+", m)
\* writable() testing for 'r' where it should test for 'x'
writable_r(m) == In("w", m) \/ In("a", m) \/ In("+", m) \/ In("r", m)
writable(m) == In("w", m) \/ In("a", m) \/ In("+", m) \/ In("x", m)

\* the constructor never taking its append branch
IsAppend_never(m) == FALSE
IsAppend(m) == In("a", m)
NeedsFetch(m) == In("a", m) \/ (~In("a", m) /\ ~In("w", m) /\ ~In("x", m))

\* ------------------------------------------------- temporary file content
\* write d at cursor p: overwrites in place, extends, fills a hole with 0
tfWrite(b, p, d) ==
  [i \in 1..Max(Len(b), p + Len(d)) |->
     IF i > p /\ i <= p + Len(d) THEN d[i - p]
     ELSE IF i <= Len(b) THEN b[i] ELSE 0]

\* read(n) from cursor p: n < 0 reads to the end
tfRead(b, p, n) ==
  IF p >= Len(b) THEN <<>>
  ELSE SubSeq(b, p + 1, IF n < 0 THEN Len(b) ELSE Min(Len(b), p + n))

\* readline(): through the next NL, or the remaining tail
tfReadline(b, p) ==
  LET nls == { j \in (p + 1)..Len(b) : b[j] = NL }
  IN IF p >= Len(b) THEN <<>>
     ELSE IF nls = {} THEN SubSeq(b, p + 1, Len(b))
     ELSE SubSeq(b, p + 1, CHOOSE j \in nls : \A k \in nls : j <= k)

RECURSIVE tfReadlines(_, _)
tfReadlines(b, p) ==
  IF p >= Len(b) THEN <<>>
  ELSE <<tfReadline(b, p)>> \o tfReadlines(b, p + Len(tfReadline(b, p)))

tfTruncate(b, n) == [i \in 1..n |-> IF i <= Len(b) THEN b[i] ELSE 0]

RECURSIVE Concat(_)
Concat(ss) == IF ss = <<>> THEN <<>> ELSE Head(ss) \o Concat(Tail(ss))

\* the position a seek leaves the temporary file at, or the error it raises
tfSeek(m, b, p, off, wh) ==
  LET target == IF wh = SEEK_SET THEN off
                ELSE IF wh = SEEK_CUR THEN p + off ELSE Len(b) + off
  IN IF ~tfBinary(m) /\ wh # SEEK_SET /\ off # 0
       THEN [status |-> "UnsupportedOperation", pos |-> p]
     ELSE IF target < 0
       THEN [status |-> IF tfBinary(m) THEN "EINVAL" ELSE "ValueError", pos |-> p]
     ELSE [status |-> "ok", pos |-> target]

\* ------------------------------------------------------- store collaborator
OK == [kind |-> "ok", code |-> "", status |-> 200]
Failures ==
  [kind : {"ClientError"}, code : {"NoSuchBucket", "AccessDenied"},
   status : {404, 403, 500}]
  \cup {[kind |-> k, code |-> "", status |-> 0] :
          k \in {"SSLError", "EndpointConnectionError", "RuntimeError"}}
Outcomes == {OK} \cup Failures
\* a success, a failure that is translated and one that is not
SomeOutcomes ==
  {OK, [kind |-> "ClientError", code |-> "AccessDenied", status |-> 403],
   [kind |-> "RuntimeError", code |-> "", status |-> 0]}

\* s3errors testing the transport status before the error code
s3errors_statusFirst(f) ==
  IF f.kind = "ClientError" THEN
    IF f.status = 404 THEN "ENOENT"
    ELSE IF f.status = 403 THEN "EACCES"
    ELSE IF f.code = "NoSuchBucket" THEN "EPERM"
    ELSE "EOPNOTSUPP"
  ELSE IF f.kind = "SSLError" THEN "EOPNOTSUPP"
  ELSE IF f.kind = "EndpointConnectionError" THEN "ETIMEDOUT"
  ELSE f.kind

\* the error a failed store call surfaces as
s3errors(f) ==
  IF f.kind = "ClientError" THEN
    IF f.code = "NoSuchBucket" THEN "EPERM"
    ELSE IF f.status = 404 THEN "ENOENT"
    ELSE IF f.status = 403 THEN "EACCES"
    ELSE "EOPNOTSUPP"
  ELSE IF f.kind = "SSLError" THEN "EOPNOTSUPP"
  ELSE IF f.kind = "EndpointConnectionError" THEN "ETIMEDOUT"
  ELSE f.kind

\* upload_fileobj reads the file object from its current position onward
upload_fileobj(b, p) == SubSeq(b, p + 1, Len(b))

\* close() uploading without its self.seek(0)
close_rewind_none(m, b, p) == p
\* cursor after the self.seek(0) of close()
close_rewind(m, b, p) == tfSeek(m, b, p, 0, SEEK_SET).pos

\* ------------------------------------------------------------------ state
VARIABLES
  remote,      \* content of the remote object
  mode,        \* mode[s]: the mode token stream s was constructed with
  phase,       \* phase[s]: "none", "open", "closed" or "failed" (constructor raised)
  buf,         \* buf[s]: content of the temporary file of s
  pos,         \* pos[s]: cursor of the temporary file of s
  pushCalls,   \* pushCalls[s]: upload_fileobj calls made by s
  fetchCalls,  \* fetchCalls[s]: download_fileobj calls made by s
  atOpen,      \* atOpen[s]: the remote content when s was constructed
  writes,      \* writes[s]: the arguments of the write() calls so far, while
               \*   onlyWrites[s]
  onlyWrites,  \* onlyWrites[s]: the calls made on s since construction are
               \*   write() calls, then at most one close()
  last         \* the last call: stream, operation, outcome, returned value

vars == <<remote, mode, phase, buf, pos, pushCalls, fetchCalls, atOpen,
          writes, onlyWrites, last>>

Ret(s, op, status, data, num) ==
  [s |-> s, op |-> op, status |-> status, data |-> data, num |-> num]
None == -1

Init ==
  /\ remote \in RemoteContents
  /\ mode = [s \in Streams |-> <<>>]
  /\ phase = [s \in Streams |-> "none"]
  /\ buf = [s \in Streams |-> <<>>]
  /\ pos = [s \in Streams |-> 0]
  /\ pushCalls = [s \in Streams |-> 0]
  /\ fetchCalls = [s \in Streams |-> 0]
  /\ atOpen = [s \in Streams |-> <<>>]
  /\ writes = [s \in Streams |-> <<>>]
  /\ onlyWrites = [s \in Streams |-> TRUE]
  /\ last = Ret(0, "none", "ok", <<>>, None)

\* close() uploading again when the temporary file is already closed
closeEffect_again(m, isClosed, b, p, rem, po, readFirst) ==
  IF ~writable(m) THEN [status |-> "ok", remote |-> rem, pushes |-> 0]
  ELSE IF ~tfReadable(m) /\ (po = OK \/ readFirst)
    THEN [status |-> "UnsupportedOperation", remote |-> rem, pushes |-> 1]
  ELSE IF po = OK
    THEN [status |-> "ok", remote |-> upload_fileobj(b, close_rewind(m, b, p)),
          pushes |-> 1]
  ELSE [status |-> s3errors(po), remote |-> rem, pushes |-> 1]

\* close() catching the failure of the upload
closeEffect_swallow(m, isClosed, b, p, rem, po, readFirst) ==
  IF ~writable(m) THEN [status |-> "ok", remote |-> rem, pushes |-> 0]
  ELSE IF isClosed THEN [status |-> "ValueError", remote |-> rem, pushes |-> 0]
  ELSE IF ~tfReadable(m) /\ (po = OK \/ readFirst)
    THEN [status |-> "ok", remote |-> rem, pushes |-> 1]
  ELSE IF po = OK
    THEN [status |-> "ok", remote |-> upload_fileobj(b, close_rewind(m, b, p)),
          pushes |-> 1]
  ELSE [status |-> "ok", remote |-> rem, pushes |-> 1]

\* what close() does to a stream of mode m whose temporary file holds b at p:
\* the outcome, the remote content afterwards, and the pushes made
closeEffect(m, isClosed, b, p, rem, po, readFirst) ==
  IF ~writable(m) THEN [status |-> "ok", remote |-> rem, pushes |-> 0]
  ELSE IF isClosed THEN [status |-> "ValueError", remote |-> rem, pushes |-> 0]
  ELSE IF ~tfReadable(m) /\ (po = OK \/ readFirst)
    THEN [status |-> "UnsupportedOperation", remote |-> rem, pushes |-> 1]
  ELSE IF po = OK
    THEN [status |-> "ok", remote |-> upload_fileobj(b, close_rewind(m, b, p)),
          pushes |-> 1]
  ELSE [status |-> s3errors(po), remote |-> rem, pushes |-> 1]

NotPure(s) ==
  /\ writes' = [writes EXCEPT ![s] = <<>>]
  /\ onlyWrites' = [onlyWrites EXCEPT ![s] = FALSE]

\* S3File(bucket, key, m): fo and po are what the store answers to the
\* download and to the upload a failed construction may make
S3File(s, m, fo, po) ==
  /\ phase[s] = "none"
  /\ mode' = [mode EXCEPT ![s] = m]
  /\ atOpen' = [atOpen EXCEPT ![s] = remote]
  /\ UNCHANGED <<writes, onlyWrites>>
  /\ IF ~NeedsFetch(m) THEN
       /\ phase' = [phase EXCEPT ![s] = "open"]
       /\ UNCHANGED <<remote, buf, pos, pushCalls, fetchCalls>>
       /\ last' = Ret(s, "open", "ok", <<>>, None)
     ELSE IF fo = OK THEN
       LET b == tfWrite(<<>>, 0, remote)
           p == IF IsAppend(m)
                  THEN tfSeek(m, b, Len(remote), 0, SEEK_END).pos
                  ELSE tfSeek(m, b, Len(remote), 0, SEEK_SET).pos
       IN /\ phase' = [phase EXCEPT ![s] = "open"]
          /\ buf' = [buf EXCEPT ![s] = b]
          /\ pos' = [pos EXCEPT ![s] = p]
          /\ fetchCalls' = [fetchCalls EXCEPT ![s] = @ + 1]
          /\ UNCHANGED <<remote, pushCalls>>
          /\ last' = Ret(s, "open", "ok", <<>>, None)
     ELSE
       LET c == closeEffect(m, FALSE, <<>>, 0, remote, po, FALSE)
       IN /\ phase' = [phase EXCEPT ![s] = "failed"]
          /\ fetchCalls' = [fetchCalls EXCEPT ![s] = @ + 1]
          /\ pushCalls' = [pushCalls EXCEPT ![s] = @ + c.pushes]
          /\ remote' = c.remote
          /\ UNCHANGED <<buf, pos>>
          /\ last' = Ret(s, "open",
                         IF c.status = "ok" THEN s3errors(fo) ELSE c.status,
                         <<>>, None)

\* close(): po is what the store answers to the upload
close(s, po, readFirst) ==
  /\ phase[s] \in {"open", "closed"}
  /\ LET c == closeEffect(mode[s], phase[s] = "closed", buf[s], pos[s],
                          remote, po, readFirst)
     IN /\ remote' = c.remote
        /\ pushCalls' = [pushCalls EXCEPT ![s] = @ + c.pushes]
        /\ last' = Ret(s, "close", c.status, <<>>, None)
  /\ phase' = [phase EXCEPT ![s] = "closed"]
  /\ buf' = [buf EXCEPT ![s] = <<>>]
  /\ pos' = [pos EXCEPT ![s] = 0]
  /\ IF phase[s] = "open" THEN UNCHANGED <<writes, onlyWrites>> ELSE NotPure(s)
  /\ UNCHANGED <<mode, fetchCalls, atOpen>>

\* ------------------------------------------------------------- scoped use
\* the exc_type a with statement hands to __exit__: none, or the exception
\* the body raised
NoExc == "ok"
ExcTypes == {NoExc, "KeyError"}

\* __enter__(): returns the stream itself, open or not
__enter__(s) ==
  /\ phase[s] \in {"open", "closed"}
  /\ last' = Ret(s, "__enter__", "ok", <<>>, None)
  /\ NotPure(s)
  /\ UNCHANGED <<remote, mode, phase, buf, pos, pushCalls, fetchCalls, atOpen>>

\* __exit__ returning a true value, which suppresses the exception of the body
__exit__swallow(s, exc_type, po, readFirst) ==
  /\ phase[s] \in {"open", "closed"}
  /\ LET c == closeEffect(mode[s], phase[s] = "closed", buf[s], pos[s],
                          remote, po, readFirst)
     IN /\ remote' = c.remote
        /\ pushCalls' = [pushCalls EXCEPT ![s] = @ + c.pushes]
        /\ last' = Ret(s, "__exit__", c.status, <<>>, None)
  /\ phase' = [phase EXCEPT ![s] = "closed"]
  /\ buf' = [buf EXCEPT ![s] = <<>>]
  /\ pos' = [pos EXCEPT ![s] = 0]
  /\ NotPure(s)
  /\ UNCHANGED <<mode, fetchCalls, atOpen>>

\* __exit__(exc_type, exc_val, exc_tb): calls close() and returns None.  The
\* outcome recorded is that of the with statement: the exception close()
\* raised, else the exception of the body, which a None result lets through
__exit__(s, exc_type, po, readFirst) ==
  /\ phase[s] \in {"open", "closed"}
  /\ LET c == closeEffect(mode[s], phase[s] = "closed", buf[s], pos[s],
                          remote, po, readFirst)
     IN /\ remote' = c.remote
        /\ pushCalls' = [pushCalls EXCEPT ![s] = @ + c.pushes]
        /\ last' = Ret(s, "__exit__",
                       IF c.status # "ok" THEN c.status ELSE exc_type,
                       <<>>, None)
  /\ phase' = [phase EXCEPT ![s] = "closed"]
  /\ buf' = [buf EXCEPT ![s] = <<>>]
  /\ pos' = [pos EXCEPT ![s] = 0]
  /\ NotPure(s)
  /\ UNCHANGED <<mode, fetchCalls, atOpen>>

\* ------------------------------------------------------ stream operations
Callable(s) == phase[s] \in {"open", "closed"}
Keep(s) == UNCHANGED <<remote, mode, phase, pushCalls, fetchCalls, atOpen>>
Fail(s, op, status) ==
  /\ last' = Ret(s, op, status, <<>>, None)
  /\ UNCHANGED <<buf, pos>>

read(s, n) ==
  /\ Callable(s) /\ Keep(s) /\ NotPure(s)
  /\ IF ~readable(mode[s]) THEN Fail(s, "read", "NotReadable")
     ELSE IF phase[s] = "closed" THEN Fail(s, "read", "ValueError")
     ELSE LET d == tfRead(buf[s], pos[s], n)
          IN /\ pos' = [pos EXCEPT ![s] = @ + Len(d)]
             /\ last' = Ret(s, "read", "ok", d, None)
             /\ UNCHANGED buf

readinto(s, k) ==
  /\ Callable(s) /\ Keep(s) /\ NotPure(s)
  /\ IF ~tfBinary(mode[s]) THEN Fail(s, "readinto", "AttributeError")
     ELSE IF ~tfReadable(mode[s]) THEN Fail(s, "readinto", "UnsupportedOperation")
     ELSE IF phase[s] = "closed" THEN Fail(s, "readinto", "ValueError")
     ELSE LET d == tfRead(buf[s], pos[s], k)
          IN /\ pos' = [pos EXCEPT ![s] = @ + Len(d)]
             /\ last' = Ret(s, "readinto", "ok", d, Len(d))
             /\ UNCHANGED buf

readline(s) ==
  /\ Callable(s) /\ Keep(s) /\ NotPure(s)
  /\ IF ~readable(mode[s]) THEN Fail(s, "readline", "NotReadable")
     ELSE IF phase[s] = "closed" THEN Fail(s, "readline", "ValueError")
     ELSE LET d == tfReadline(buf[s], pos[s])
          IN /\ pos' = [pos EXCEPT ![s] = @ + Len(d)]
             /\ last' = Ret(s, "readline", "ok", d, None)
             /\ UNCHANGED buf

readlines(s) ==
  /\ Callable(s) /\ Keep(s) /\ NotPure(s)
  /\ IF ~readable(mode[s]) THEN Fail(s, "readlines", "NotReadable")
     ELSE IF phase[s] = "closed" THEN Fail(s, "readlines", "ValueError")
     ELSE /\ pos' = [pos EXCEPT ![s] = Max(@, Len(buf[s]))]
          /\ last' = Ret(s, "readlines", "ok", tfReadlines(buf[s], pos[s]), None)
          /\ UNCHANGED buf

seek(s, off, wh) ==
  /\ Callable(s) /\ Keep(s) /\ NotPure(s)
  /\ IF phase[s] = "closed" THEN Fail(s, "seek", "ValueError")
     ELSE LET r == tfSeek(mode[s], buf[s], pos[s], off, wh)
          IN /\ r.pos <= MaxLen
             /\ pos' = [pos EXCEPT ![s] = r.pos]
             /\ last' = Ret(s, "seek", r.status, <<>>,
                            IF r.status = "ok" THEN r.pos ELSE None)
             /\ UNCHANGED buf

tell(s) ==
  /\ Callable(s) /\ Keep(s) /\ NotPure(s)
  /\ IF phase[s] = "closed" THEN Fail(s, "tell", "ValueError")
     ELSE /\ last' = Ret(s, "tell", "ok", <<>>, pos[s])
          /\ UNCHANGED <<buf, pos>>

\* write() without its writable() check
write_unchecked(s, d) ==
  /\ Callable(s) /\ Keep(s)
  /\ IF phase[s] = "closed" THEN Fail(s, "write", "ValueError") /\ NotPure(s)
     ELSE /\ pos[s] + Len(d) <= MaxLen
          /\ buf' = [buf EXCEPT ![s] = tfWrite(@, pos[s], d)]
          /\ pos' = [pos EXCEPT ![s] = @ + Len(d)]
          /\ last' = Ret(s, "write", "ok", <<>>, Len(d))
          /\ writes' = [writes EXCEPT ![s] = IF onlyWrites[s] THEN Append(@, d) ELSE @]
          /\ UNCHANGED onlyWrites

write(s, d) ==
  /\ Callable(s) /\ Keep(s)
  /\ IF ~writable(mode[s]) THEN Fail(s, "write", "NotWritable") /\ NotPure(s)
     ELSE IF phase[s] = "closed" THEN Fail(s, "write", "ValueError") /\ NotPure(s)
     ELSE /\ pos[s] + Len(d) <= MaxLen
          /\ buf' = [buf EXCEPT ![s] = tfWrite(@, pos[s], d)]
          /\ pos' = [pos EXCEPT ![s] = @ + Len(d)]
          /\ last' = Ret(s, "write", "ok", <<>>, Len(d))
          /\ writes' = [writes EXCEPT ![s] = IF onlyWrites[s] THEN Append(@, d) ELSE @]
          /\ UNCHANGED onlyWrites

writelines(s, ls) ==
  /\ Callable(s) /\ Keep(s) /\ NotPure(s)
  /\ IF ~writable(mode[s]) THEN Fail(s, "writelines", "NotWritable")
     ELSE IF phase[s] = "closed" THEN Fail(s, "writelines", "ValueError")
     ELSE /\ pos[s] + Len(Concat(ls)) <= MaxLen
          /\ buf' = [buf EXCEPT ![s] = tfWrite(@, pos[s], Concat(ls))]
          /\ pos' = [pos EXCEPT ![s] = @ + Len(Concat(ls))]
          /\ last' = Ret(s, "writelines", "ok", <<>>, None)

truncate(s, size) ==
  /\ Callable(s) /\ Keep(s) /\ NotPure(s)
  /\ IF ~writable(mode[s]) THEN Fail(s, "truncate", "NotWritable")
     ELSE IF phase[s] = "closed" THEN Fail(s, "truncate", "ValueError")
     ELSE LET n == IF size = NoSize THEN pos[s] ELSE size
          IN /\ buf' = [buf EXCEPT ![s] = tfTruncate(@, n)]
             /\ last' = Ret(s, "truncate", "ok", <<>>, n)
             /\ UNCHANGED pos

\* ------------------------------------------------------------ specification
Step(s) ==
  \/ \E m \in Modes, fo \in Outcomes, po \in Outcomes :
       /\ phase[s] = "none"
       /\ fo # OK => NeedsFetch(m)
       /\ po # OK => fo # OK /\ writable(m)
       /\ S3File(s, m, fo, po)
  \/ \E n \in ReadSizes : read(s, n)
  \/ \E k \in IntoSizes : readinto(s, k)
  \/ readline(s)
  \/ readlines(s)
  \/ \E a \in SeekArgs : seek(s, a[1], a[2])
  \/ tell(s)
  \/ \E d \in WriteData : write(s, d)
  \/ \E ls \in LineLists : writelines(s, ls)
  \/ \E size \in TruncSizes \cup {NoSize} : truncate(s, size)
  \/ \E po \in SomeOutcomes, readFirst \in BOOLEAN :
       /\ Callable(s)
       /\ po # OK => writable(mode[s]) /\ phase[s] = "open"
       /\ readFirst => ~tfReadable(mode[s]) /\ po # OK
       /\ close(s, po, readFirst)

\* one stream on the object
Next == Step(1)
Spec == Init /\ [][Next]_vars

\* one stream and a store that may refuse any call: constructions, writes,
\* seeks and closes
StepStore(s) ==
  \/ \E m \in Modes, fo \in Outcomes, po \in Outcomes :
       /\ phase[s] = "none"
       /\ fo # OK => NeedsFetch(m)
       /\ po # OK => fo # OK /\ writable(m)
       /\ S3File(s, m, fo, po)
  \/ \E a \in SeekArgs : seek(s, a[1], a[2])
  \/ \E d \in WriteData : write(s, d)
  \/ \E po \in Outcomes, readFirst \in BOOLEAN :
       /\ Callable(s)
       /\ po # OK => writable(mode[s]) /\ phase[s] = "open"
       /\ readFirst => ~tfReadable(mode[s]) /\ po # OK
       /\ close(s, po, readFirst)

NextStore == StepStore(1)
SpecStore == Init /\ [][NextStore]_vars

\* one stream used as the subject of with statements: the body reads, writes,
\* seeks and may close the stream itself, then returns or raises
StepScope(s) ==
  \/ \E m \in Modes, fo \in SomeOutcomes, po \in SomeOutcomes :
       /\ phase[s] = "none"
       /\ fo # OK => NeedsFetch(m)
       /\ po # OK => fo # OK /\ writable(m)
       /\ S3File(s, m, fo, po)
  \/ __enter__(s)
  \/ \E n \in ReadSizes : read(s, n)
  \/ \E a \in SeekArgs : seek(s, a[1], a[2])
  \/ \E d \in WriteData : write(s, d)
  \/ \E po \in SomeOutcomes, readFirst \in BOOLEAN :
       /\ Callable(s)
       /\ po # OK => writable(mode[s]) /\ phase[s] = "open"
       /\ readFirst => ~tfReadable(mode[s]) /\ po # OK
       /\ close(s, po, readFirst)
  \/ \E exc_type \in ExcTypes, po \in SomeOutcomes, readFirst \in BOOLEAN :
       /\ Callable(s)
       /\ po # OK => writable(mode[s]) /\ phase[s] = "open"
       /\ readFirst => ~tfReadable(mode[s]) /\ po # OK
       /\ __exit__(s, exc_type, po, readFirst)

NextScope == StepScope(1)
SpecScope == Init /\ [][NextScope]_vars

\* two streams on the same object, their calls interleaved one at a time; the
\* store answers every call, and each stream writes a unit of its own
PairModes == {<<"r">>, <<"w">>, <<"a", "+">>, <<"x">>}
StepPair(s) ==
  \/ \E m \in PairModes : phase[s] = "none" /\ S3File(s, m, OK, OK)
  \/ read(s, -1)
  \/ seek(s, 0, SEEK_SET)
  \/ write(s, <<s>>)
  \/ close(s, OK, FALSE)

NextPair == StepPair(1) \/ StepPair(2)
SpecPair == Init /\ [][NextPair]_vars

\* ------------------------------------------------------------------ claims
WriteOnlyCreate == {<<"w">>, <<"w", "b">>, <<"x">>, <<"x", "b">>}
ReadOnly == {<<"r">>, <<"r", "b">>}
NotReadableModes == {<<"w">>, <<"w", "b">>, <<"a">>, <<"x">>, <<"x", "b">>}
WritableModes == Modes \ ReadOnly
AppendModes == {<<"a">>, <<"a", "+">>}
StoreErrors == {s3errors(f) : f \in Failures}

\* C1: on a constructed writable stream no push is made before the first
\* close(), and exactly one push has been made once close() was called,
\* however many times it is called again.
C1_PushExactlyOnce ==
  \A s \in Streams :
    mode[s] \in WritableModes =>
      /\ phase[s] = "open" => pushCalls[s] = 0
      /\ phase[s] = "closed" => pushCalls[s] = 1

\* a writable stream that was closed, and closed again
C1_Witness ==
  /\ mode[1] \in WritableModes /\ phase[1] = "closed" /\ pushCalls[1] = 1
  /\ last.op = "close" /\ last.status = "ValueError"

\* C2: a close() that follows a close() that returned normally returns
\* normally too, and changes nothing.
C2_DoubleCloseSafe ==
  [][\A po \in Outcomes, rf \in BOOLEAN :
       (last.op = "close" /\ last.status = "ok" /\ close(1, po, rf))
         => (last'.status = "ok" /\ UNCHANGED <<remote, pushCalls, phase, buf, pos>>)]_vars

\* C3: a stream opened in w, wb, x or xb makes no fetch, starts with an empty
\* buffer at cursor 0 whatever the remote content, and when content was
\* written from the start and the stream closed, the remote content is
\* exactly what was written (unless the store refused the upload).
C3_TruncateCreate ==
  \A s \in Streams :
    mode[s] \in WriteOnlyCreate =>
      /\ fetchCalls[s] = 0
      /\ (last.s = s /\ last.op = "open") => (buf[s] = <<>> /\ pos[s] = 0)
      /\ (/\ phase[s] = "closed" /\ onlyWrites[s] /\ writes[s] # <<>>
          /\ last.s = s /\ last.status \notin StoreErrors)
           => remote = Concat(writes[s])

\* C4: a stream opened in a or a+ on remote content X, on which Y1 and
\* then Y2 were written and close() then returned normally, has pushed
\* X + Y1 + Y2.
C4_AppendTwoWrites ==
  \A s \in Streams :
    (/\ mode[s] \in AppendModes /\ phase[s] = "closed"
     /\ onlyWrites[s] /\ Len(writes[s]) = 2
     /\ last.s = s /\ last.status = "ok")
      => (pushCalls[s] = 1 /\ remote = atOpen[s] \o writes[s][1] \o writes[s][2])

C4_Witness ==
  /\ mode[1] \in AppendModes /\ phase[1] = "closed"
  /\ onlyWrites[1] /\ Len(writes[1]) = 2
  /\ last.s = 1 /\ last.op = "close" /\ last.status = "ok"
  /\ atOpen[1] # <<>>
  /\ remote = atOpen[1] \o writes[1][1] \o writes[1][2]

\* C5: in append mode a write(Y) on buffer content B leaves the buffer equal
\* to B + Y, wherever in B the cursor stood.
C5_AppendAtEnd ==
  [][\A d \in WriteData :
       (/\ mode[1] \in AppendModes /\ phase[1] = "open"
        /\ pos[1] <= Len(buf[1]) /\ write(1, d))
         => buf'[1] = buf[1] \o d]_vars

\* C6: a stream opened in r or rb never pushes, whatever is called on it, and
\* a read() that directly follows its construction returns the remote content.
C6_ReadOnly ==
  /\ [](\A s \in Streams : mode[s] \in ReadOnly => pushCalls[s] = 0)
  /\ [][(/\ mode[1] \in ReadOnly /\ last.op = "open" /\ last.status = "ok"
         /\ read(1, -1))
          => (last'.status = "ok" /\ last'.data = remote)]_vars

\* a read-only stream on an object with content, had a write rejected after it was
\* closed, and pushed nothing
C6_Witness ==
  /\ mode[1] \in ReadOnly /\ phase[1] = "closed" /\ atOpen[1] # <<>>
  /\ last.op = "write" /\ last.status = "NotWritable"
  /\ pushCalls[1] = 0 /\ remote = atOpen[1]

\* C7: on a stream opened in r or rb, write, writelines and truncate fail
\* with NotWritable and leave buffer, cursor and remote content as they were,
\* with no push.
C7_NotWritable ==
  [][mode[1] \in ReadOnly =>
       ((\/ \E d \in WriteData : write(1, d)
         \/ \E ls \in LineLists : writelines(1, ls)
         \/ \E size \in TruncSizes \cup {NoSize} : truncate(1, size))
          => (/\ last'.status = "NotWritable"
              /\ UNCHANGED <<buf, pos, remote, pushCalls>>))]_vars

\* a truncate rejected on an open read-only stream whose buffer holds content
C7_Witness ==
  /\ mode[1] \in ReadOnly /\ phase[1] = "open"
  /\ last.op = "truncate" /\ last.status = "NotWritable"
  /\ buf[1] # <<>> /\ buf[1] = atOpen[1]

\* C8: on a stream opened in w, a or x (or wb, xb), read, readline and
\* readlines fail with NotReadable and leave buffer and cursor as they were,
\* and the close() that follows pushes exactly the buffer content, once.
C8_NotReadable ==
  [][mode[1] \in NotReadableModes =>
       /\ ((\E n \in ReadSizes : read(1, n)) \/ readline(1) \/ readlines(1))
            => (last'.status = "NotReadable" /\ UNCHANGED <<buf, pos>>)
       /\ (last.status = "NotReadable" /\ phase[1] = "open" /\ close(1, OK, FALSE))
            => (remote' = buf[1] /\ pushCalls'[1] = 1)]_vars

\* C9: on a stream opened in w, a or x (or wb, xb), readinto fails with
\* NotReadable and returns no data.
C9_ReadintoNotReadable ==
  [][\A k \in IntoSizes :
       (mode[1] \in NotReadableModes /\ readinto(1, k))
         => (last'.status = "NotReadable" /\ last'.data = <<>>)]_vars

\* C10: on a writable stream truncate() resizes the buffer to the cursor
\* position and returns it, truncate(n) resizes it to n and returns n, the
\* units kept are the first units of the old content, and the close() that
\* follows pushes content of exactly that length.
C10_Truncate ==
  [][/\ \A size \in TruncSizes \cup {NoSize} :
          (mode[1] \in WritableModes /\ phase[1] = "open" /\ truncate(1, size))
            => LET n == IF size = NoSize THEN pos[1] ELSE size
               IN /\ last'.status = "ok" /\ last'.num = n
                  /\ Len(buf'[1]) = n
                  /\ \A i \in 1..Min(n, Len(buf[1])) : buf'[1][i] = buf[1][i]
     /\ (/\ mode[1] \in WritableModes /\ phase[1] = "open"
         /\ last.op = "truncate" /\ last.status = "ok"
         /\ close(1, OK, FALSE))
          => (Len(remote') = last.num /\ remote' = buf[1])]_vars

FetchModes == {<<"r">>, <<"r", "b">>, <<"r", "+">>, <<"a">>, <<"a", "+">>}
ReadCapable == {<<"r">>, <<"r", "b">>, <<"r", "+">>, <<"w", "+">>, <<"a", "+">>}
ReadFromStart == {<<"r">>, <<"r", "b">>, <<"r", "+">>}

\* C11: a stream opened in a+ on remote content X starts with the cursor at
\* the end of X, a read() that directly follows the construction returns
\* nothing, and a close() while the buffer still holds X pushes exactly X.
C11_AppendRead ==
  [][mode[1] = <<"a", "+">> =>
       /\ (last.op = "open" /\ last.status = "ok")
            => (buf[1] = atOpen[1] /\ pos[1] = Len(atOpen[1]))
       /\ (last.op = "open" /\ last.status = "ok" /\ read(1, -1))
            => (last'.status = "ok" /\ last'.data = <<>>)
       /\ (phase[1] = "open" /\ buf[1] = atOpen[1] /\ close(1, OK, FALSE))
            => (/\ last'.status = "ok" /\ pushCalls'[1] = 1
                /\ remote' = atOpen[1])]_vars

\* an a+ stream on an object with content, closed after calls that were no
\* writes: one push, of that content
C11_Witness ==
  /\ mode[1] = <<"a", "+">> /\ phase[1] = "closed" /\ atOpen[1] # <<>>
  /\ last.op = "close" /\ last.status = "ok" /\ ~onlyWrites[1]
  /\ pushCalls[1] = 1 /\ remote = atOpen[1]

\* the failure kinds of the error taxonomy
C12_Kind(status) ==
  IF status \in {"EPERM", "EACCES"} THEN "PermissionDenied"
  ELSE IF status = "ENOENT" THEN "NotFound"
  ELSE IF status = "EOPNOTSUPP" THEN "Unsupported"
  ELSE IF status = "ETIMEDOUT" THEN "TimedOut"
  ELSE status

\* the translation rules in their stated order
C12_Rule(f) ==
  IF f.kind = "ClientError" /\ f.code = "NoSuchBucket" THEN "PermissionDenied"
  ELSE IF f.kind = "ClientError" /\ f.status = 404 THEN "NotFound"
  ELSE IF f.kind = "ClientError" /\ f.status = 403 THEN "PermissionDenied"
  ELSE IF f.kind = "ClientError" THEN "Unsupported"
  ELSE IF f.kind = "SSLError" THEN "Unsupported"
  ELSE IF f.kind = "EndpointConnectionError" THEN "TimedOut"
  ELSE f.kind

\* C12: a store failure surfaces translated by the same ordered rules whether
\* the fetch of a construction or the push of a close() met it: container
\* missing is PermissionDenied whatever the status, then 404 is NotFound, 403
\* PermissionDenied, any other client failure Unsupported, a secure-transport
\* failure Unsupported, an unreachable endpoint TimedOut, and any other
\* exception surfaces as itself.
C12_Translation ==
  [][/\ last'.op = "open" =>
          \A m \in FetchModes, fo \in Failures :
            S3File(1, m, fo, OK) => C12_Kind(last'.status) = C12_Rule(fo)
     /\ (last'.op = "close" /\ phase[1] = "open" /\ mode[1] \in WritableModes) =>
          \A po \in Failures :
            close(1, po, FALSE) => C12_Kind(last'.status) = C12_Rule(po)]_vars

\* a construction refused for a missing container
C12_Witness ==
  /\ phase[1] = "failed" /\ last.op = "open" /\ last.status = "EPERM"

\* C13: when the push of a close() on an open writable stream fails, the
\* stream still ends closed with its buffer released, and close() raises: the
\* translation of the store's failure when the store answered with one.
C13_CloseFailure ==
  [][(last'.op = "close" /\ phase[1] = "open" /\ mode[1] \in WritableModes) =>
       \A po \in Failures, rf \in BOOLEAN :
         close(1, po, rf) =>
           /\ phase'[1] = "closed" /\ buf'[1] = <<>> /\ pos'[1] = 0
           /\ last'.status # "ok"
           /\ ~rf => C12_Kind(last'.status) = C12_Rule(po)]_vars

\* a writable stream with content, closed by a close() that raised a store error
C13_Witness ==
  /\ mode[1] \in WritableModes /\ phase[1] = "closed" /\ buf[1] = <<>>
  /\ last.op = "close" /\ last.status = "ETIMEDOUT"
  /\ onlyWrites[1] /\ writes[1] # <<>> /\ pushCalls[1] = 1

\* C14: when the fetch of a construction in r, r+, a or a+ fails, the buffer
\* is released and the error the constructor raises is the translation of
\* that fetch failure, whatever the store answers to a later call.
C14_FetchFailure ==
  [][last'.op = "open" =>
       \A m \in FetchModes, fo \in Failures, po \in Outcomes :
         S3File(1, m, fo, po) =>
           /\ phase'[1] = "failed" /\ buf'[1] = <<>>
           /\ C12_Kind(last'.status) = C12_Rule(fo)]_vars

C16_Fetched(s) == IF mode[s] \in FetchModes THEN atOpen[s] ELSE <<>>

\* C16 as stated: on a stream opened in r, r+, w+ or a+ and not changed, a
\* read() that directly follows the construction returns the fetched content,
\* and close() makes no push.
C16_ReadCapableNoPush ==
  [][(mode[1] \in ReadCapable /\ phase[1] = "open") =>
       /\ (last.op = "open" /\ read(1, -1))
            => (last'.status = "ok" /\ last'.data = C16_Fetched(1))
       /\ (buf[1] = C16_Fetched(1) /\ close(1, OK, FALSE))
            => pushCalls'[1] = 0]_vars

\* C16 amended: on a stream opened in r, r+, w+ or a+ and not changed, a
\* read() that directly follows the construction returns the fetched content
\* from the cursor on (all of it in r and r+, nothing in a+, whose cursor
\* starts at the end, and nothing in w+, which fetches nothing), and close()
\* makes no push in r and exactly one push, of the unchanged buffer, in r+,
\* w+ and a+.
C16_ReadCapable ==
  [][(mode[1] \in ReadCapable /\ phase[1] = "open") =>
       /\ (last.op = "open" /\ read(1, -1))
            => /\ last'.status = "ok"
               /\ last'.data = IF mode[1] \in ReadFromStart
                                 THEN atOpen[1] ELSE <<>>
       /\ (buf[1] = C16_Fetched(1) /\ close(1, OK, FALSE))
            => /\ last'.status = "ok"
               /\ IF mode[1] \in ReadOnly
                    THEN pushCalls'[1] = 0 /\ remote' = remote
                    ELSE pushCalls'[1] = 1 /\ remote' = C16_Fetched(1)]_vars

\* an r+ stream on an object with content, closed with nothing else called:
\* one push, of the fetched content
C16_Witness ==
  /\ mode[1] = <<"r", "+">> /\ phase[1] = "closed" /\ atOpen[1] # <<>>
  /\ onlyWrites[1] /\ writes[1] = <<>>
  /\ last.op = "close" /\ last.status = "ok"
  /\ pushCalls[1] = 1 /\ remote = atOpen[1]

\* C17: the close() of an open writable stream hands the store the whole
\* buffer from offset 0, wherever the cursor stands.
C17_PushWholeBuffer ==
  [][(/\ last'.op = "close" /\ phase[1] = "open" /\ mode[1] \in WritableModes
      /\ close(1, OK, FALSE))
       => (pushCalls'[1] = 1 /\ remote' = buf[1])]_vars

\* C18: a construction whose fetch failed has made no push and has left the
\* remote content as it was.
C18_FailedOpenNoPush ==
  phase[1] = "failed" => (pushCalls[1] = 0 /\ remote = atOpen[1])

\* C19: with two streams constructed on one object, a call on one stream
\* leaves the buffer and the cursor of the other as they were, the close() of
\* an open writable stream leaves the remote content equal to that stream's
\* whole buffer, and no other call changes the remote content: once both are
\* closed the remote content is the buffer of the writable stream closed last.
C19_LastWriterWins ==
  [][\A s \in Streams :
       (last'.s = s /\ phase[s] # "none" /\ phase[3 - s] # "none") =>
         /\ buf'[3 - s] = buf[3 - s] /\ pos'[3 - s] = pos[3 - s]
         /\ IF /\ last'.op = "close" /\ phase[s] = "open"
               /\ mode[s] \in WritableModes
              THEN remote' = buf[s]
              ELSE remote' = remote]_vars

====
